---- MODULE Spec2Model ----
(***************************************************************************)
(* Model of app/main.py: the /estimate and /transcribe handlers, the       *)
(* process-wide default model (get_model) and sanitize_filename.           *)
(*                                                                         *)
(* Text is a sequence of one-character strings; a path is such a sequence  *)
(* with "/" as separator.  A resolved path is a sequence of components.    *)
(* Durations are in tenths of a second and real-time factors in tenths, so *)
(* an estimate is in hundredths of a second.                               *)
(***************************************************************************)
EXTENDS Integers, Sequences, FiniteSets, TLC

\* ---------------------------------------------------------------- bounds
NumRequests == 2
MaxLen == 3
MaxDuration == 3

\* ------------------------------------------------------------- characters
Letters ==
  {"a","b","c","d","e","f","g","h","i","j","k","l","m","n","o","p","q","r",
   "s","t","u","v","w","x","y","z","M"}
Digits == {"0","1","2","3","4","5","6","7","8","9"}

\* str.isalnum for one character
isalnum(c) == c \in Letters \cup Digits

\* the whitespace str.strip removes
IsSpace(c) == c \in {" ", "\t", "\n"}

RECURSIVE lstrip(_)
lstrip(s) == IF s = <<>> THEN s
             ELSE IF IsSpace(Head(s)) THEN lstrip(Tail(s)) ELSE s

RECURSIVE rstrip(_)
rstrip(s) == IF s = <<>> THEN s
             ELSE IF IsSpace(s[Len(s)]) THEN rstrip(SubSeq(s, 1, Len(s) - 1))
             ELSE s

\* str.strip()
strip(s) == rstrip(lstrip(s))

\* ------------------------------------------------------ sanitize_filename
keep == {"-", "_", "(", ")", ".", " "}

Audio == <<"a","u","d","i","o">>

Filtered(name) ==
  LET Kept(c) == isalnum(c) \/ c \in keep IN SelectSeq(name, Kept)

sanitize_filename_keepAll(name) ==
  IF strip(name) = <<>> THEN Audio ELSE strip(name)

sanitize_filename(name) ==
  IF strip(Filtered(name)) = <<>> THEN Audio ELSE strip(Filtered(name))

\* ------------------------------------------------------- os.path helpers
\* index of the last occurrence of c in s, 0 when absent (str.rfind + 1)
RECURSIVE rfind(_, _)
rfind(s, c) == IF s = <<>> THEN 0
               ELSE IF s[Len(s)] = c THEN Len(s)
               ELSE rfind(SubSeq(s, 1, Len(s) - 1), c)

\* os.path.splitext(p)[0]
splitext_root(p) ==
  LET sepIndex == rfind(p, "/")
      dotIndex == rfind(p, ".")
  IN IF dotIndex > sepIndex
        /\ \E i \in (sepIndex + 1)..(dotIndex - 1) : p[i] # "."
     THEN SubSeq(p, 1, dotIndex - 1)
     ELSE p

\* os.path.join(a, b)
os_path_join(a, b) ==
  IF b # <<>> /\ Head(b) = "/" THEN b
  ELSE IF a = <<>> \/ a[Len(a)] = "/" THEN a \o b
  ELSE a \o <<"/">> \o b

\* base = sanitize_filename(os.path.splitext(file.filename)[0])
Base(filename) == sanitize_filename(splitext_root(filename))

\* ------------------------------------------------------------ file names
MyMeetingMp3 ==
  <<"M","y"," ","M","e","e","t","i","n","g","!","!"," ","2","0","2","4",
    ".","m","p","3">>
MyMeetingRaw ==
  <<"M","y"," ","M","e","e","t","i","n","g","!","!"," ","2","0","2","4">>
MyMeetingClean ==
  <<"M","y"," ","M","e","e","t","i","n","g"," ","2","0","2","4">>

SanAlphabet == {"a", "!", ".", " ", "/"}

RECURSIVE SeqsUpTo(_, _)
SeqsUpTo(S, n) ==
  IF n = 0 THEN {<<>>}
  ELSE LET shorter == SeqsUpTo(S, n - 1)
       IN shorter \cup {Append(s, c) : s \in shorter, c \in S}

SanNames == SeqsUpTo(SanAlphabet, MaxLen) \cup {MyMeetingMp3}

VARIABLES san_pc, san_name, san_base

svars == <<san_pc, san_name, san_base>>

SanInit ==
  /\ san_pc = "start"
  /\ san_name \in SanNames
  /\ san_base = <<>>

\* main.py line 328 applied to the chosen upload name
ComputeBase ==
  /\ san_pc = "start"
  /\ san_base' = Base(san_name)
  /\ san_pc' = "done"
  /\ UNCHANGED san_name

\* ------------------------------------------------------------ filesystem
TmpComp == <<"t","m","p">>
ReqChar(r) == <<"1","2","3","4","5","6","7","8","9">>[r]

\* tempfile.mkdtemp(prefix="a2t_"): one fresh directory per request
tmp_dir(r) == <<"/","t","m","p","/","a","2","t","_", ReqChar(r)>>
TmpDirComps(r) == <<TmpComp, <<"a","2","t","_", ReqChar(r)>>>>

RECURSIVE Split(_)
Split(s) ==
  IF \A i \in 1..Len(s) : s[i] # "/" THEN <<s>>
  ELSE LET i == CHOOSE k \in 1..Len(s) :
                  s[k] = "/" /\ \A j \in 1..(k - 1) : s[j] # "/"
       IN <<SubSeq(s, 1, i - 1)>> \o Split(SubSeq(s, i + 1, Len(s)))

Parent(d) == IF d = <<>> THEN d ELSE SubSeq(d, 1, Len(d) - 1)

\* path resolution as open(2) does it, without symbolic links: every
\* component but the last must name an existing directory
RECURSIVE Walk(_, _, _)
Walk(cur, comps, dirs) ==
  IF comps = <<>> THEN [kind |-> "dir", path |-> cur]
  ELSE LET c == Head(comps)
           rest == Tail(comps)
           nxt == Append(cur, c)
       IN IF c = <<>> \/ c = <<".">> THEN Walk(cur, rest, dirs)
          ELSE IF c = <<".", ".">> THEN Walk(Parent(cur), rest, dirs)
          ELSE IF nxt \in dirs THEN Walk(nxt, rest, dirs)
          ELSE IF rest = <<>> THEN [kind |-> "file", path |-> nxt]
          ELSE [kind |-> "enoent", path |-> nxt]

Resolve(p, dirs) == Walk(<<>>, Split(p), dirs)

IsPrefix(d, p) == Len(d) < Len(p) /\ SubSeq(p, 1, Len(d)) = d

\* a resolved path lies inside request r's scoped directory
Inside(p, r) == IsPrefix(TmpDirComps(r), p)

TextFile(t) == [text |-> t, entries |-> <<>>]
ZipFile(es) == [text |-> <<>>, entries |-> es]

UploadBytes == <<"b","y","t","e","s">>
Pcm == <<"p","c","m">>

\* ------------------------------------------------------------- constants
RTF_GUESSES ==
  ("tiny" :> 4) @@ ("base" :> 8) @@ ("small" :> 12) @@ ("medium" :> 20)
  @@ ("large-v3" :> 30)

\* values WHISPER_MODEL may give MODEL_SIZE (default "base")
ConfiguredModels == {"base", "tiny", "large-v2"}

\* the model form field
RequestedModels == {"base", "tiny", "bogus"}

TxtExt == <<".","t","x","t">>
SummarySuffix == <<"_","s","u","m","m","a","r","y",".","t","x","t">>
ZipSuffix == <<"_","t","r","a","n","s","c","r","i","p","t","_","a","n","d",
               "_","s","u","m","m","a","r","y",".","z","i","p">>
InputWav == <<"i","n","p","u","t",".","w","a","v">>

Requests == 1..NumRequests

None == [id |-> 0, size |-> ""]

NoInput == [filename |-> <<>>, model |-> "", summarize |-> FALSE,
            openai_api_key |-> <<>>]

NoResp == [status |-> 0, media |-> "", filename |-> <<>>, path |-> <<>>,
           error |-> FALSE, bg |-> FALSE]

NoBody == [status |-> 0, media |-> "", filename |-> <<>>, error |-> FALSE,
           text |-> <<>>, entries |-> <<>>]

VARIABLES MODEL_SIZE, _model, nextInst, loop, files, tmpExists, pc, inp, m,
          txt, resp, sent, log, written, decodeOut, sumOut

tvars == <<MODEL_SIZE, _model, nextInst, loop, files, tmpExists, pc, inp, m,
           txt, resp, sent, log, written, decodeOut, sumOut>>

\* -------------------------------------------------- per-request paths
src_path(r) == os_path_join(tmp_dir(r), inp[r].filename)
wav_path(r) == os_path_join(tmp_dir(r), InputWav)
base(r) == Base(inp[r].filename)
out_txt(r) == os_path_join(tmp_dir(r), base(r) \o TxtExt)
summary_txt(r) == os_path_join(tmp_dir(r), base(r) \o SummarySuffix)
zip_path(r) == os_path_join(tmp_dir(r), base(r) \o ZipSuffix)

\* the directories that exist: /, /tmp and the live request directories
Dirs(te) == {<<>>, <<TmpComp>>} \cup {TmpDirComps(r) : r \in {q \in Requests : te[q]}}

Put(fs, p, c) == (p :> c) @@ fs

\* rm -rf of request r's directory
RmRf(fs, r) == [p \in {q \in DOMAIN fs : ~Inside(q, r)} |-> fs[p]]

\* ------------------------------------------------------- collaborators
\* ffmpeg -y -i src wav: refuses to write its own input; otherwise the
\* content decides; "missing" is the utility not being installed
FfmpegOutcomes(src, wav) ==
  IF src = wav THEN {"rejected", "missing"} ELSE {"ok", "rejected", "missing"}

SegmentChoices == { <<>>, << <<" ","h","i"," ">>, <<"y","o">> >> }

RECURSIVE Joined(_)
Joined(segs) ==
  IF segs = <<>> THEN <<>>
  ELSE strip(Head(segs)) \o <<" ">> \o Joined(Tail(segs))

\* lines 331-335: the transcript as finally written
Transcript(segs) == strip(Joined(segs)) \o <<"\n">>

Bullets == <<" ","-"," ","h","i","\n">>

\* summarize_to_bullets: raises without a key, else the API answers or fails
SummarizerOutcomes(api_key) ==
  IF api_key = <<>> THEN {"no_key"} ELSE {"ok", "api_error"}

FailureMarker(e) == <<"[Summary failed: ", e, "]", "\n">>

SummaryOnError_uncaught(e) == [raised |-> TRUE, text |-> <<>>]

\* lines 344-346: except Exception writes the marker
SummaryOnError(e) == [raised |-> FALSE, text |-> FailureMarker(e)]

\* ---------------------------------------------------------- decisions
get_model_always(cur, fresh) == fresh

\* lines 25-29: construct only while _model is None
get_model(cur, fresh) == IF cur = None THEN fresh ELSE cur

\* line 324
UseModel(model) == IF model \in DOMAIN RTF_GUESSES THEN model ELSE MODEL_SIZE

WantsSummary_unstripped(i) == i.summarize /\ i.openai_api_key # <<>>

\* line 337: summarize and openai_api_key.strip()
WantsSummary(i) == i.summarize /\ strip(i.openai_api_key) # <<>>

DecodeErrorResponse_noCleanup ==
  [status |-> 400, media |-> "application/json", filename |-> <<>>,
   path |-> <<>>, error |-> TRUE, bg |-> FALSE]

\* lines 321-322
DecodeErrorResponse ==
  [status |-> 400, media |-> "application/json", filename |-> <<>>,
   path |-> <<>>, error |-> TRUE, bg |-> TRUE]

\* lines 357-359 and 365-367
FileResponse(path, media, filename) ==
  [status |-> 200, media |-> media, filename |-> filename, path |-> path,
   error |-> FALSE, bg |-> TRUE]

\* an exception leaving the handler: the framework answers 500
ServerError ==
  [status |-> 500, media |-> "text/plain", filename |-> <<>>, error |-> FALSE,
   text |-> <<>>, entries |-> <<>>]

CleanupEnabled_early(r) == pc[r] \in {"respond", "cleanup"}

\* the BackgroundTask runs once the response has been sent
CleanupEnabled(r) == pc[r] = "cleanup"

StageRank ==
  ("intake" :> 1) @@ ("decode" :> 2) @@ ("transcribe" :> 3)
  @@ ("summarize" :> 4) @@ ("package" :> 5) @@ ("respond" :> 6)
  @@ ("cleanup" :> 7)

VARIABLES est_pc, est_in, est_tmp, est_probe, est_duration, est_unlink,
          est_resp

evars == <<est_pc, est_in, est_tmp, est_probe, est_duration, est_unlink,
           est_resp>>

vars == <<svars, tvars, evars>>

\* --------------------------------------------------- /transcribe handler
Logged(r, stage) == [log EXCEPT ![r] = Append(@, stage)]

Wrote(r, p) == [written EXCEPT ![r] = @ \cup {p}]

\* an exception propagates out of the handler: 500, no background task
Crash(r) ==
  /\ pc' = [pc EXCEPT ![r] = "crashed"]
  /\ sent' = [sent EXCEPT ![r] = ServerError]
  /\ loop' = 0

\* lines 311-314 up to the await: mkdtemp, join, open(src_path, "wb")
Intake(r, names, sums, keys) ==
  /\ pc[r] = "idle"
  /\ loop = 0
  /\ \A q \in Requests : q < r => pc[q] # "idle"
  /\ \E fn \in names, mo \in RequestedModels, su \in sums, k \in keys :
       LET te == [tmpExists EXCEPT ![r] = TRUE]
           target == Resolve(os_path_join(tmp_dir(r), fn), Dirs(te))
       IN /\ inp' = [inp EXCEPT ![r] =
                       [filename |-> fn, model |-> mo, summarize |-> su,
                        openai_api_key |-> k]]
          /\ tmpExists' = te
          /\ log' = Logged(r, "intake")
          /\ IF target.kind = "file"
             THEN /\ files' = Put(files, target.path, TextFile(<<>>))
                  /\ written' = Wrote(r, target.path)
                  /\ pc' = [pc EXCEPT ![r] = "await_read"]
                  /\ UNCHANGED <<sent, loop>>
             ELSE /\ Crash(r)
                  /\ UNCHANGED <<files, written>>
  /\ UNCHANGED <<MODEL_SIZE, _model, nextInst, m, txt, resp, decodeOut,
                 sumOut, svars, evars>>

\* line 314 after the await: the handler resumes on the event loop and
\* keeps it until it returns (it awaits nothing else)
StoreUpload(r) ==
  /\ pc[r] = "await_read"
  /\ loop = 0
  /\ loop' = r
  /\ files' = Put(files, Resolve(src_path(r), Dirs(tmpExists)).path,
                  TextFile(UploadBytes))
  /\ pc' = [pc EXCEPT ![r] = "decode"]
  /\ UNCHANGED <<MODEL_SIZE, _model, nextInst, tmpExists, inp, m, txt, resp,
                 sent, log, written, decodeOut, sumOut, svars, evars>>

\* lines 316-322
Decode(r) ==
  /\ pc[r] = "decode"
  /\ loop = r
  /\ LET src == Resolve(src_path(r), Dirs(tmpExists)).path
         wav == Resolve(wav_path(r), Dirs(tmpExists)).path
     IN \E out \in FfmpegOutcomes(src, wav) :
          /\ decodeOut' = [decodeOut EXCEPT ![r] = out]
          /\ log' = Logged(r, "decode")
          /\ CASE out = "ok" ->
                    /\ files' = Put(files, wav, TextFile(Pcm))
                    /\ written' = Wrote(r, wav)
                    /\ pc' = [pc EXCEPT ![r] = "select"]
                    /\ UNCHANGED <<resp, sent, loop>>
               [] out = "rejected" ->
                    /\ resp' = [resp EXCEPT ![r] = DecodeErrorResponse]
                    /\ pc' = [pc EXCEPT ![r] = "respond"]
                    /\ loop' = 0
                    /\ UNCHANGED <<files, written, sent>>
               [] out = "missing" ->
                    /\ Crash(r)
                    /\ UNCHANGED <<files, written, resp>>
  /\ UNCHANGED <<MODEL_SIZE, _model, nextInst, tmpExists, inp, m, txt,
                 sumOut, svars, evars>>

\* lines 324-325: built is whether WhisperModel(...) returns or raises
SelectModel(r) ==
  /\ pc[r] = "select"
  /\ loop = r
  /\ log' = Logged(r, "transcribe")
  /\ \E built \in BOOLEAN :
       LET use_model == UseModel(inp[r].model)
           fresh == [id |-> nextInst + 1, size |-> use_model]
           chosen == IF use_model = MODEL_SIZE
                     THEN get_model(_model, fresh) ELSE fresh
       IN IF chosen = fresh /\ ~built
          THEN /\ Crash(r)
               /\ UNCHANGED <<_model, nextInst, m>>
          ELSE /\ m' = [m EXCEPT ![r] = chosen]
               /\ _model' = IF use_model = MODEL_SIZE THEN chosen ELSE _model
               /\ nextInst' = IF chosen = fresh THEN nextInst + 1
                              ELSE nextInst
               /\ pc' = [pc EXCEPT ![r] = "transcribe"]
               /\ UNCHANGED <<sent, loop>>
  /\ UNCHANGED <<MODEL_SIZE, files, tmpExists, inp, txt, resp, written,
                 decodeOut, sumOut, svars, evars>>

\* lines 326-337 and, without a summary, 361-367
Transcribe(r, choices) ==
  /\ pc[r] = "transcribe"
  /\ loop = r
  /\ LET out == Resolve(out_txt(r), Dirs(tmpExists)) IN
     \E o \in {"raise_call", "raise_iter", "ok"}, segs \in choices :
       CASE o = "raise_call" ->
              /\ Crash(r)
              /\ UNCHANGED <<files, written, txt, resp>>
         [] o = "raise_iter" \/ out.kind # "file" ->
              /\ Crash(r)
              /\ files' = IF out.kind = "file"
                          THEN Put(files, out.path, TextFile(<<>>)) ELSE files
              /\ written' = IF out.kind = "file" THEN Wrote(r, out.path)
                            ELSE written
              /\ UNCHANGED <<txt, resp>>
         [] OTHER ->
              /\ files' = Put(files, out.path, TextFile(Transcript(segs)))
              /\ written' = Wrote(r, out.path)
              /\ txt' = [txt EXCEPT ![r] = Transcript(segs)]
              /\ IF WantsSummary(inp[r])
                 THEN /\ pc' = [pc EXCEPT ![r] = "summarize"]
                      /\ UNCHANGED <<resp, loop>>
                 ELSE /\ pc' = [pc EXCEPT ![r] = "respond"]
                      /\ resp' = [resp EXCEPT ![r] =
                           FileResponse(out.path, "text/plain",
                                        base(r) \o TxtExt)]
                      /\ loop' = 0
              /\ UNCHANGED sent
  /\ UNCHANGED <<MODEL_SIZE, _model, nextInst, tmpExists, inp, m, log,
                 decodeOut, sumOut, svars, evars>>

\* lines 338-346
Summarize(r) ==
  /\ pc[r] = "summarize"
  /\ loop = r
  /\ log' = Logged(r, "summarize")
  /\ LET sum == Resolve(summary_txt(r), Dirs(tmpExists)).path IN
     \E o \in SummarizerOutcomes(strip(inp[r].openai_api_key)) :
       LET res == IF o = "ok"
                  THEN [raised |-> FALSE, text |-> strip(Bullets) \o <<"\n">>]
                  ELSE SummaryOnError(o)
       IN /\ sumOut' = [sumOut EXCEPT ![r] = o]
          /\ IF res.raised
             THEN /\ Crash(r)
                  /\ UNCHANGED <<files, written>>
             ELSE /\ files' = Put(files, sum, TextFile(res.text))
                  /\ written' = Wrote(r, sum)
                  /\ pc' = [pc EXCEPT ![r] = "package"]
                  /\ UNCHANGED <<sent, loop>>
  /\ UNCHANGED <<MODEL_SIZE, _model, nextInst, tmpExists, inp, m, txt, resp,
                 decodeOut, svars, evars>>

\* lines 348-359: zipped is whether the archive is written or zipfile raises
Package(r) ==
  /\ pc[r] = "package"
  /\ loop = r
  /\ log' = Logged(r, "package")
  /\ LET out == Resolve(out_txt(r), Dirs(tmpExists)).path
         sum == Resolve(summary_txt(r), Dirs(tmpExists)).path
         zip == Resolve(zip_path(r), Dirs(tmpExists)).path
         entries == << [name |-> base(r) \o TxtExt, content |-> files[out].text],
                       [name |-> base(r) \o SummarySuffix,
                        content |-> files[sum].text] >>
     IN /\ written' = Wrote(r, zip)
        /\ \E zipped \in BOOLEAN :
             IF zipped
             THEN /\ files' = Put(files, zip, ZipFile(entries))
                  /\ resp' = [resp EXCEPT ![r] =
                       FileResponse(zip, "application/zip",
                                    base(r) \o ZipSuffix)]
                  /\ pc' = [pc EXCEPT ![r] = "respond"]
                  /\ loop' = 0
                  /\ UNCHANGED sent
             ELSE /\ files' = Put(files, zip, ZipFile(<<>>))
                  /\ Crash(r)
                  /\ UNCHANGED resp
  /\ UNCHANGED <<MODEL_SIZE, _model, nextInst, tmpExists, inp, m, txt,
                 decodeOut, sumOut, svars, evars>>

\* the framework sends the returned response; a FileResponse reads its file
Respond(r) ==
  /\ pc[r] = "respond"
  /\ log' = Logged(r, "respond")
  /\ LET rp == resp[r]
         body == IF rp.path = <<>> THEN TextFile(<<>>) ELSE files[rp.path]
     IN /\ sent' = [sent EXCEPT ![r] =
              [status |-> rp.status, media |-> rp.media,
               filename |-> rp.filename, error |-> rp.error,
               text |-> body.text, entries |-> body.entries]]
        /\ pc' = [pc EXCEPT ![r] = IF rp.bg THEN "cleanup" ELSE "done"]
  /\ UNCHANGED <<MODEL_SIZE, _model, nextInst, loop, files, tmpExists, inp, m,
                 txt, resp, written, decodeOut, sumOut, svars, evars>>

\* lines 322, 353-355, 361-363: rm -rf tmp_dir as the background task
Cleanup(r) ==
  /\ CleanupEnabled(r)
  /\ log' = Logged(r, "cleanup")
  /\ tmpExists' = [tmpExists EXCEPT ![r] = FALSE]
  /\ files' = RmRf(files, r)
  /\ pc' = [pc EXCEPT ![r] = "done"]
  /\ UNCHANGED <<MODEL_SIZE, _model, nextInst, loop, inp, m, txt, resp, sent,
                 written, decodeOut, sumOut, svars, evars>>

\* ----------------------------------------------------- /estimate handler
DefaultRtf == 10

NoEstimate == [status |-> 0, duration_seconds |-> 0,
               estimated_time_seconds |-> 0, model |-> "", rtf_used |-> 0]

EstServerError == [status |-> 500, duration_seconds |-> 0,
                   estimated_time_seconds |-> 0, model |-> "", rtf_used |-> 0]

NoProbe == [exit |-> "", numeric |-> FALSE, value |-> 0]

\* what ffprobe can do: not installed, exit non-zero, print "N/A", or print
\* the duration of the container
ProbeResults ==
  {[exit |-> "missing", numeric |-> FALSE, value |-> 0],
   [exit |-> "nonzero", numeric |-> FALSE, value |-> 0],
   [exit |-> "zero", numeric |-> FALSE, value |-> 0]}
  \cup {[exit |-> "zero", numeric |-> TRUE, value |-> d] : d \in 0..MaxDuration}

\* lines 31-40: any exception (missing utility, check=True, float()) gives 0.0
run_ffprobe_duration(res) ==
  IF res.exit = "zero" /\ res.numeric THEN res.value ELSE 0

model_key_asRequested(model) == model

\* line 293
model_key(model) ==
  IF model \in DOMAIN RTF_GUESSES THEN model ELSE MODEL_SIZE

\* line 294: RTF_GUESSES.get(model_key, 1.0)
rtf(key) == IF key \in DOMAIN RTF_GUESSES THEN RTF_GUESSES[key] ELSE DefaultRtf

\* NamedTemporaryFile(delete=False, suffix="_" + file.filename) in /tmp
est_tmp_path(filename) ==
  <<"/","t","m","p","/","t","m","p","x","_">> \o filename

EstNames == { <<"a",".","m","p","3">>, <<"a","/","b">> }

EstModels == {"base", "tiny", "large-v3", "bogus"}

\* line 286 up to the await
EstIntake ==
  /\ est_pc = "idle"
  /\ \E fn \in EstNames, mo \in EstModels :
       /\ est_in' = [filename |-> fn, model |-> mo]
       /\ IF Resolve(est_tmp_path(fn), Dirs(tmpExists)).kind = "file"
          THEN /\ est_tmp' = TRUE
               /\ est_pc' = "await_read"
               /\ UNCHANGED est_resp
          ELSE /\ est_pc' = "crashed"
               /\ est_resp' = EstServerError
               /\ UNCHANGED est_tmp
  /\ UNCHANGED <<est_probe, est_duration, est_unlink, tvars, svars>>

\* lines 287-289
EstStore ==
  /\ est_pc = "await_read"
  /\ est_pc' = "probe"
  /\ UNCHANGED <<est_in, est_tmp, est_probe, est_duration, est_unlink,
                 est_resp, tvars, svars>>

\* line 290
EstProbe ==
  /\ est_pc = "probe"
  /\ \E res \in ProbeResults :
       /\ est_probe' = res
       /\ est_duration' = run_ffprobe_duration(res)
  /\ est_pc' = "unlink"
  /\ UNCHANGED <<est_in, est_tmp, est_unlink, est_resp, tvars, svars>>

\* line 291: os.unlink(tmp_path) outside any try; removed is whether it
\* succeeds or raises OSError
EstUnlink ==
  /\ est_pc = "unlink"
  /\ \E removed \in BOOLEAN :
       /\ est_unlink' = IF removed THEN "removed" ELSE "failed"
       /\ IF removed
          THEN /\ est_tmp' = FALSE
               /\ est_pc' = "respond"
               /\ UNCHANGED est_resp
          ELSE /\ est_pc' = "crashed"
               /\ est_resp' = EstServerError
               /\ UNCHANGED est_tmp
  /\ UNCHANGED <<est_in, est_probe, est_duration, tvars, svars>>

\* lines 293-302
EstRespond ==
  /\ est_pc = "respond"
  /\ est_resp' =
       [status |-> 200, duration_seconds |-> est_duration,
        estimated_time_seconds |-> est_duration * rtf(model_key(est_in.model)),
        model |-> model_key(est_in.model),
        rtf_used |-> rtf(model_key(est_in.model))]
  /\ est_pc' = "done"
  /\ UNCHANGED <<est_in, est_tmp, est_probe, est_duration, est_unlink, tvars,
                 svars>>

\* ------------------------------------------------------- specifications
Mp3 == <<"a",".","m","p","3">>

\* upload names of the single-request specification
OneNames ==
  { Mp3, InputWav, <<".",".","/","a">>, <<"/","t","m","p","/","a">>,
    <<"a","/","b">>, <<>>, <<"!",".","m","p","3">>, <<"a",".","t","x","t">> }

OneKeys == { <<>>, <<" ">>, <<"k">> }

ConcNames == { Mp3 }

ConcKeys == { <<"k">> }

ConcSegments == { << <<" ","h","i"," ">>, <<"y","o">> >> }

TInit(configured) ==
  /\ MODEL_SIZE \in configured
  /\ _model = None
  /\ nextInst = 0
  /\ loop = 0
  /\ files = <<>>
  /\ tmpExists = [r \in Requests |-> FALSE]
  /\ pc = [r \in Requests |-> "idle"]
  /\ inp = [r \in Requests |-> NoInput]
  /\ m = [r \in Requests |-> None]
  /\ txt = [r \in Requests |-> <<>>]
  /\ resp = [r \in Requests |-> NoResp]
  /\ sent = [r \in Requests |-> NoBody]
  /\ log = [r \in Requests |-> <<>>]
  /\ written = [r \in Requests |-> {}]
  /\ decodeOut = [r \in Requests |-> ""]
  /\ sumOut = [r \in Requests |-> ""]

EInit ==
  /\ est_pc = "idle"
  /\ est_in = [filename |-> <<>>, model |-> ""]
  /\ est_tmp = FALSE
  /\ est_probe = NoProbe
  /\ est_duration = 0
  /\ est_unlink = ""
  /\ est_resp = NoEstimate

SanIdle ==
  /\ san_pc = "start"
  /\ san_name = <<>>
  /\ san_base = <<>>

\* concurrent /transcribe requests for a plain transcript: every model
\* choice and every failure before the response; the summary branch, which
\* neither reads nor writes _model, is exercised by SpecOne
Init == TInit(ConfiguredModels) /\ EInit /\ SanIdle

Next ==
  \E r \in Requests :
    \/ Intake(r, ConcNames, {FALSE}, ConcKeys)
    \/ StoreUpload(r)
    \/ Decode(r)
    \/ SelectModel(r)
    \/ Transcribe(r, ConcSegments)
    \/ Respond(r)
    \/ Cleanup(r)

Spec == Init /\ [][Next]_vars

\* one /transcribe request over every kind of upload name and credential
NextOne ==
  \/ Intake(1, OneNames, BOOLEAN, OneKeys)
  \/ StoreUpload(1)
  \/ Decode(1)
  \/ SelectModel(1)
  \/ Transcribe(1, SegmentChoices)
  \/ Summarize(1)
  \/ Package(1)
  \/ Respond(1)
  \/ Cleanup(1)

SpecOne == Init /\ [][NextOne]_vars

\* one /estimate call
NextEst == EstIntake \/ EstStore \/ EstProbe \/ EstUnlink \/ EstRespond

SpecEst == Init /\ [][NextEst]_vars

\* sanitize_filename over bounded names
InitSan == TInit({"base"}) /\ EInit /\ SanInit

NextSan == ComputeBase /\ UNCHANGED <<tvars, evars>>

SpecSan == InitSan /\ [][NextSan]_vars

\* ================================================================ claims
Ended(r) == pc[r] \in {"done", "crashed"}

InLog(r, stage) == \E i \in 1..Len(log[r]) : log[r][i] = stage

LastStage(r) == IF log[r] = <<>> THEN "" ELSE log[r][Len(log[r])]

OutPath(r) == Resolve(out_txt(r), Dirs([q \in Requests |-> TRUE])).path
SummaryPath(r) == Resolve(summary_txt(r), Dirs([q \in Requests |-> TRUE])).path
ZipPath(r) == Resolve(zip_path(r), Dirs([q \in Requests |-> TRUE])).path
WavPath(r) == Resolve(wav_path(r), Dirs([q \in Requests |-> TRUE])).path
SrcTarget(r) == Resolve(src_path(r), Dirs([q \in Requests |-> TRUE]))

\* C1: every /transcribe request that reached the decode step and has ended,
\* on the error paths too (decode utility missing or rejecting, model
\* construction or transcription raising, archive creation raising), has had
\* its temporary directory removed.
C1_TmpDirRemovedOnEveryPath ==
  \A r \in Requests : (Ended(r) /\ decodeOut[r] # "") => ~tmpExists[r]

\* C2: when the decode utility rejects the upload the request answers 4xx
\* with an error field, never obtains a speech model nor writes a transcript,
\* is never turned into a server error, and its temporary directory and
\* everything in it are gone once the request is done.
C2_DecodeRejected ==
  \A r \in Requests :
    decodeOut[r] = "rejected" =>
      /\ pc[r] \in {"respond", "cleanup", "done"}
      /\ resp[r].status \in 400..499 /\ resp[r].error
      /\ sent[r].status # 0 => (sent[r].status \in 400..499 /\ sent[r].error)
      /\ m[r] = None /\ txt[r] = <<>>
      /\ ~InLog(r, "transcribe")
      /\ written[r] = {SrcTarget(r).path}
      /\ pc[r] = "done" =>
           (~tmpExists[r] /\ \A p \in DOMAIN files : ~Inside(p, r))

C2_Witness ==
  \E r \in Requests :
    /\ decodeOut[r] = "rejected"
    /\ pc[r] = "done"
    /\ sent[r].status = 400
    /\ ~tmpExists[r]

\* C3: when the summary is requested with a non-empty credential and the
\* summarization collaborator raises, the failure does not abort the request:
\* the summary file holds the failure marker, the transcript is unchanged,
\* the response is 200 with the zip of exactly those two entries, and the
\* only error response still possible is a failure of archive creation.
C3_SummaryFailureNotFatal ==
  \A r \in Requests :
    sumOut[r] \notin {"", "ok"} =>
      /\ inp[r].summarize /\ inp[r].openai_api_key # <<>>
      /\ pc[r] \in {"package", "respond", "cleanup", "done", "crashed"}
      /\ pc[r] = "crashed" => LastStage(r) = "package"
      /\ pc[r] = "package" =>
           /\ files[SummaryPath(r)].text = FailureMarker(sumOut[r])
           /\ files[OutPath(r)].text = txt[r]
      /\ pc[r] = "respond" => resp[r].status = 200
      /\ (sent[r].status # 0 /\ pc[r] # "crashed") =>
           /\ sent[r].status = 200
           /\ sent[r].media = "application/zip"
           /\ sent[r].entries =
                << [name |-> base(r) \o TxtExt, content |-> txt[r]],
                   [name |-> base(r) \o SummarySuffix,
                    content |-> FailureMarker(sumOut[r])] >>

C3_Witness ==
  \E r \in Requests :
    /\ sumOut[r] = "api_error"
    /\ pc[r] = "done"
    /\ sent[r].status = 200
    /\ Len(sent[r].entries) = 2

PlainArtifact(r) ==
  /\ sent[r].media = "text/plain"
  /\ sent[r].filename = base(r) \o TxtExt
  /\ sent[r].text = txt[r]
  /\ sent[r].entries = <<>>
  /\ SummaryPath(r) \notin written[r]
  /\ ZipPath(r) \notin written[r]

ZipArtifact(r) ==
  /\ sent[r].media = "application/zip"
  /\ sent[r].filename = base(r) \o ZipSuffix
  /\ Len(sent[r].entries) = 2
  /\ sent[r].entries[1].name = base(r) \o TxtExt
  /\ sent[r].entries[2].name = base(r) \o SummarySuffix
  /\ sent[r].entries[1].content = txt[r]

\* C4 as stated: a request that answers 200 returns the plain transcript when
\* summarize is false or the credential is empty, and the two-entry zip when
\* summarize is true and the credential is non-empty.
C4_AsStated ==
  \A r \in Requests :
    sent[r].status = 200 =>
      IF ~inp[r].summarize \/ inp[r].openai_api_key = <<>>
      THEN PlainArtifact(r) ELSE ZipArtifact(r)

\* C4 amended: the choice is made on the credential with surrounding
\* whitespace stripped.  A request whose decode and transcription succeeded
\* answers 200 with exactly one artifact unless archive creation fails; the
\* artifact is the plain transcript <base>.txt, with no summary file or
\* archive created, when summarize is false or the stripped credential is
\* empty, and otherwise the zip <base>_transcript_and_summary.zip with
\* exactly the entries <base>.txt and <base>_summary.txt.
C4_ArtifactByStrippedCredential ==
  \A r \in Requests :
    /\ (txt[r] # <<>> /\ pc[r] = "crashed") => LastStage(r) = "package"
    /\ (txt[r] # <<>> /\ pc[r] \in {"cleanup", "done"}) => sent[r].status = 200
    /\ sent[r].status = 200 =>
         IF ~inp[r].summarize \/ strip(inp[r].openai_api_key) = <<>>
         THEN PlainArtifact(r) ELSE ZipArtifact(r)

C4_Witness ==
  \E r \in Requests :
    /\ sent[r].status = 200
    /\ inp[r].summarize
    /\ inp[r].openai_api_key = <<" ">>
    /\ sent[r].media = "text/plain"
    /\ pc[r] = "done"

ProbeFailed == ~(est_probe.exit = "zero" /\ est_probe.numeric)

EstimateBasics ==
  /\ est_resp.duration_seconds >= 0
  /\ ProbeFailed => est_resp.duration_seconds = 0
  /\ ~ProbeFailed => est_resp.duration_seconds = est_probe.value
  /\ est_resp.estimated_time_seconds
       = est_resp.duration_seconds * est_resp.rtf_used

\* C5 as stated: every /estimate answer has duration_seconds >= 0 (0 when
\* the probe fails), estimated_time_seconds = duration_seconds x rtf_used,
\* and rtf_used is the table's factor of the requested model when that is a
\* table key and otherwise the table's factor of the configured default
\* model, whatever the configured default is.
C5_AsStated ==
  est_resp.status = 200 =>
    /\ EstimateBasics
    /\ \E key \in DOMAIN RTF_GUESSES :
         /\ key = IF est_in.model \in DOMAIN RTF_GUESSES THEN est_in.model
                  ELSE MODEL_SIZE
         /\ est_resp.rtf_used = RTF_GUESSES[key]

\* C5 amended: as stated, except that when neither the requested model nor
\* the configured default model is a table key, rtf_used is 1.0 (10 tenths).
C5_EstimateWithFallbackFactor ==
  est_resp.status = 200 =>
    /\ EstimateBasics
    /\ est_resp.rtf_used =
         CASE est_in.model \in DOMAIN RTF_GUESSES -> RTF_GUESSES[est_in.model]
           [] est_in.model \notin DOMAIN RTF_GUESSES
              /\ MODEL_SIZE \in DOMAIN RTF_GUESSES -> RTF_GUESSES[MODEL_SIZE]
           [] OTHER -> 10

C5_Witness ==
  /\ est_resp.status = 200
  /\ est_in.model = "bogus"
  /\ MODEL_SIZE = "large-v2"
  /\ est_resp.rtf_used = 10
  /\ est_resp.duration_seconds > 0
  /\ est_resp.estimated_time_seconds = 10 * est_resp.duration_seconds

DefaultChosen(r) == UseModel(inp[r].model) = MODEL_SIZE

\* C6: under every interleaving of concurrent /transcribe requests, the
\* shared default-model instance is never replaced once constructed, every
\* request that selects the default model gets exactly that instance, and a
\* request for another model gets a fresh instance of its own and leaves the
\* shared one as it was.
C6_DefaultModelNeverReplaced ==
  [][ /\ _model # None => _model' = _model
      /\ \A r \in Requests :
           /\ m[r] # None => m'[r] = m[r]
           /\ (m[r] = None /\ m'[r] # None) =>
                IF DefaultChosen(r)
                THEN /\ m'[r] = _model'
                     /\ m'[r].size = MODEL_SIZE
                ELSE /\ _model' = _model
                     /\ m'[r] # _model'
                     /\ m'[r].size = inp[r].model
                     /\ \A q \in Requests : m[q] # m'[r]
    ]_vars

C6_Witness ==
  \E r1, r2 \in Requests :
    /\ r1 # r2
    /\ pc[r1] \in {"respond", "cleanup"}
    /\ pc[r2] = "transcribe"
    /\ _model # None
    /\ m[r1] = _model
    /\ m[r2] = _model

\* C7: within one request the stages are entered in the order intake,
\* decode, transcribe, summarize, package, respond, cleanup, each only after
\* the stage before it on its path has completed: the transcript file is
\* complete before summarization, packaging or a 200 response starts, and
\* the temporary directory stays until the response has been sent.
C7_StageOrder ==
  \A r \in Requests :
    /\ \A i, j \in 1..Len(log[r]) :
         i < j => StageRank[log[r][i]] < StageRank[log[r][j]]
    /\ log[r] # <<>> => log[r][1] = "intake"
    /\ InLog(r, "transcribe") => (InLog(r, "decode") /\ decodeOut[r] = "ok")
    /\ InLog(r, "summarize") => (InLog(r, "transcribe") /\ txt[r] # <<>>)
    /\ InLog(r, "package") => (InLog(r, "summarize") /\ sumOut[r] # "")
    /\ InLog(r, "respond") =>
         /\ InLog(r, "decode")
         /\ sent[r].status = 200 => txt[r] # <<>>
         /\ sent[r].media = "application/zip" => InLog(r, "package")
    /\ InLog(r, "cleanup") => (InLog(r, "respond") /\ sent[r].status # 0)
    /\ pc[r] \in {"await_read", "decode", "select", "transcribe",
                  "summarize", "package", "respond"} => tmpExists[r]
    /\ (pc[r] \in {"summarize", "package"}
        \/ (pc[r] = "respond" /\ resp[r].status = 200)) =>
         /\ OutPath(r) \in DOMAIN files
         /\ files[OutPath(r)].text = txt[r]
         /\ txt[r] # <<>>

C7_Witness ==
  \E r \in Requests :
    log[r] = <<"intake", "decode", "transcribe", "summarize", "package",
               "respond", "cleanup">>

AllowedOnly(b) == \A i \in 1..Len(b) : isalnum(b[i]) \/ b[i] \in keep

NothingSurvives(name) ==
  \A i \in 1..Len(splitext_root(name)) :
    LET c == splitext_root(name)[i] IN c = " " \/ ~(isalnum(c) \/ c \in keep)

\* C8 as stated: the base derived from "My Meeting!! 2024.mp3" is
\* "My Meeting!! 2024", no punctuation outside the allow-list is left, and a
\* name stripped to empty gives "audio", so the base is never empty.
C8_AsStated ==
  san_pc = "done" =>
    /\ san_name = MyMeetingMp3 => san_base = MyMeetingRaw
    /\ AllowedOnly(san_base)
    /\ NothingSurvives(san_name) => san_base = Audio
    /\ san_base # <<>>

\* C8 amended: the base derived from "My Meeting!! 2024.mp3" is
\* "My Meeting 2024" ("!" is outside the allow-list); the base holds only
\* alphanumerics and allow-list characters with no surrounding blanks, a
\* name stripped to empty gives "audio", and the base is never empty.
C8_SanitizedBase ==
  san_pc = "done" =>
    /\ san_name = MyMeetingMp3 => san_base = MyMeetingClean
    /\ AllowedOnly(san_base)
    /\ san_base[1] # " " /\ san_base[Len(san_base)] # " "
    /\ NothingSurvives(san_name) => san_base = Audio
    /\ san_base # <<>>

C8_Witness ==
  /\ san_pc = "done"
  /\ san_name = MyMeetingMp3
  /\ san_base = MyMeetingClean

\* C9: an /estimate call whose temporary file cannot be deleted still
\* answers with the JSON estimate, and a call that answers has written and
\* deleted its temporary file.
C9_UnlinkFailureNotEscalated ==
  /\ (est_unlink = "failed" /\ est_pc \in {"done", "crashed"}) =>
       est_resp.status = 200
  /\ est_resp.status = 200 => ~est_tmp

\* C10: every file a /transcribe request creates or overwrites lies inside
\* its own temporary directory, and the stored upload is a different file
\* from the normalized waveform input.wav.
C10_WritesInsideOwnDir ==
  \A r \in Requests :
    /\ \A p \in written[r] : Inside(p, r)
    /\ pc[r] \notin {"idle", "crashed"} => SrcTarget(r).path # WavPath(r)

====
